---- MODULE Spec2Model ----
(***************************************************************************)
(* Model of the emulator streaming engine of emulator_watcher:             *)
(*   ADBService  (adb_service.py): the worker map, the lock, the frame     *)
(*                queue, start_stream / stop_stream / stop_all /           *)
(*                active_serials and the _frame_worker loop;               *)
(*   SSHSession  (ssh_client.py): _client, _lock, run / connect / close;   *)
(*   FrameEvent / RunResult (models.py).                                   *)
(* Caller threads invoke the public methods; every statement that touches  *)
(* shared state is one step, so that the interleavings of callers and      *)
(* capture workers are the ones the Python threads can produce.            *)
(***************************************************************************)
EXTENDS Integers, Sequences, FiniteSets, TLC

VARIABLES
    workers,      \* ADBService._workers: insertion-ordered dict serial -> handle
    lock,         \* ADBService._lock: the owning caller thread, or NoThread
    frame_queue,  \* ADBService.frame_queue: the FrameEvents put, oldest first
    w,            \* the capture workers ever spawned: thread state + stop_event
    caller,       \* the caller threads: position and locals of the running call
    now,          \* the last reading of the UTC clock (datetime.utcnow)
    call,         \* a call of list_emulators or of the frame normalisation:
                  \* its input and, once it has been made, its outcome
    session,      \* SSHSession: _client, _lock, and the paramiko clients made
    runner        \* the threads inside SSHSession.run / connect / close

vars == <<workers, lock, frame_queue, w, caller, now, call, session, runner>>

----------------------------------------------------------------------------
(* Bounds of the model *)

\* capture workers that start_stream may spawn in one behaviour
MaxWorkers == 2
\* FrameEvents constructed in one behaviour
MaxFrames == 2
\* the GUI thread, which makes every call of the application, and a second
\* thread for the claims about concurrent callers
Gui == "t1"
Threads == {"t1", "t2"}
NoThread == "free"

\* EmulatorDescriptor values as list_emulators builds them (serial, port)
Descriptors ==
    { [serial |-> "emulator-5554", port |-> 5554],
      [serial |-> "emulator-5556", port |-> 5556] }
Serials == {d.serial : d \in Descriptors}
NoDescriptor == [serial |-> "", port |-> 0]

\* captured stdout of one screencap call: empty, or bytes holding CR CR LF
Stdouts == { <<>>, <<80, 13, 13, 10>> }
ExitCodes == {0, 1}

WorkerIds == 1..MaxWorkers
\* handle = None
None == 0

----------------------------------------------------------------------------
(* models.py *)

\* RunResult.ok
Ok(result) == result.exit_code = 0

RunResults == [exit_code : ExitCodes, stdout : Stdouts]

\* a replace that stops after the first occurrence (count=1)
ReplaceFirst(b) ==
    LET at == {i \in 1..(Len(b) - 2) :
                  b[i] = 13 /\ b[i + 1] = 13 /\ b[i + 2] = 10} IN
    IF at = {} THEN b
    ELSE LET i == CHOOSE x \in at : \A y \in at : x <= y IN
         SubSeq(b, 1, i - 1) \o <<10>> \o SubSeq(b, i + 3, Len(b))

\* bytes.replace(b"\r\r\n", b"\n"): left to right, non-overlapping
RECURSIVE Replace(_)
Replace(b) ==
    IF Len(b) = 0 THEN <<>>
    ELSE IF Len(b) >= 3 /\ b[1] = 13 /\ b[2] = 13 /\ b[3] = 10
         THEN <<10>> \o Replace(SubSeq(b, 4, Len(b)))
         ELSE <<b[1]>> \o Replace(SubSeq(b, 2, Len(b)))

\* FrameEvent(emulator=descriptor, frame_bytes=frame_bytes), timestamp = utcnow()
FrameEvent(descriptor, frame_bytes, ts) ==
    [emulator |-> descriptor, frame_bytes |-> frame_bytes, timestamp |-> ts]

----------------------------------------------------------------------------
(* the dict ADBService._workers *)

\* list(self._workers.keys())
Keys(m) == [k \in 1..Len(m) |-> m[k].serial]

\* serial in self._workers
Has(m, s) == \E k \in 1..Len(m) : m[k].serial = s

\* the handle stored for s, None when absent
Get(m, s) ==
    IF Has(m, s) THEN (CHOOSE k \in 1..Len(m) : m[k].serial = s) ELSE None

Handle(m, s) == IF Has(m, s) THEN m[Get(m, s)].handle ELSE None

\* a faulty pop that leaves the entry in the dict
PopKeep(m, s) == m

\* self._workers.pop(serial, None): the dict afterwards
Pop(m, s) == SelectSeq(m, LAMBDA e : e.serial # s)

\* self._workers[serial] = handle
SetItem(m, s, h) ==
    IF Has(m, s)
    THEN [k \in 1..Len(m) |->
            IF m[k].serial = s THEN [serial |-> s, handle |-> h] ELSE m[k]]
    ELSE Append(m, [serial |-> s, handle |-> h])

----------------------------------------------------------------------------
(* worker threads *)

Unborn == [descriptor |-> NoDescriptor, stop_event |-> FALSE,
           pc |-> "unborn", ev |-> <<>>]

Spawned == {i \in WorkerIds : w[i].pc # "unborn"}

\* Thread.is_alive(): started and its target has not returned or raised
Alive(i) == w[i].pc \in {"top", "run", "put", "wait"}

\* frames constructed so far: those in the queue and those about to be put
FramesMade ==
    Len(frame_queue) + Cardinality({i \in WorkerIds : w[i].pc = "put"})

Idle == [pc |-> "idle", serial |-> "", descriptor |-> NoDescriptor,
         handle |-> None, serials |-> <<>>, i |-> 0, inAll |-> FALSE,
         snapN |-> 0]

\* the threads that use the SSHSession: the GUI thread (connect, close, run)
\* and two worker threads (run)
SessionThreads == {"t1", "w1", "w2"}

\* self._client: None, or the n-th paramiko.SSHClient made
NoClient == 0

\* SSHSession(host): no client, the lock free, no client made yet
Fresh == [client |-> NoClient, lock |-> NoThread, made |-> 0, open |-> {}]

\* the session after the connect() of _handle_connect, as ADBService gets it
Connected == [client |-> 1, lock |-> NoThread, made |-> 1, open |-> {1}]

\* a thread that is in none of run, connect, close
Outside == [pc |-> "out", client |-> NoClient, ret |-> "out"]

\* no call of list_emulators or of the normalisation is under way
NoCall == [pc |-> "none"]

TypeOK ==
    /\ lock \in Threads \cup {NoThread}
    /\ now \in 0..MaxFrames
    /\ Len(frame_queue) <= MaxFrames
    /\ \A i \in WorkerIds : w[i].pc \in
          {"unborn", "top", "run", "put", "wait", "exit", "crashed"}

Init ==
    /\ workers = <<>>
    /\ lock = NoThread
    /\ frame_queue = <<>>
    /\ w = [i \in WorkerIds |-> Unborn]
    /\ caller = [t \in Threads |-> Idle]
    /\ now = 0
    /\ call = NoCall
    /\ session = Connected
    /\ runner = [t \in SessionThreads |-> Outside]

----------------------------------------------------------------------------
(* ADBService.start_stream *)

\* a lock that excludes nobody
CanAcquireRacy(t) == TRUE

\* threading.RLock: free, or already owned by the acquiring thread
CanAcquire(t) == lock \in {NoThread, t}

\* start_stream(descriptor) is called and reaches `with self._lock`
StartStreamCall(t, d) ==
    /\ caller[t].pc = "idle"
    /\ Has(workers, d.serial) \/ Cardinality(Spawned) < MaxWorkers
    /\ caller' = [caller EXCEPT
                    ![t] = [Idle EXCEPT !.pc = "ss_lock",
                                        !.descriptor = d,
                                        !.serial = d.serial]]
    /\ UNCHANGED <<workers, lock, frame_queue, w, now, call, session, runner>>

\* with self._lock: the lock is acquired
StartStreamAcquire(t) ==
    /\ caller[t].pc = "ss_lock"
    /\ CanAcquire(t)
    /\ lock' = t
    /\ caller' = [caller EXCEPT ![t].pc = "ss_check"]
    /\ UNCHANGED <<workers, frame_queue, w, now, call, session, runner>>

\* a check that never finds the serial
StartStreamCheckMissing(t) ==
    /\ caller[t].pc = "ss_check"
    /\ caller' = [caller EXCEPT ![t].pc = "ss_record"]
    /\ UNCHANGED <<workers, lock, frame_queue, w, now, call, session, runner>>

\* if descriptor.serial in self._workers: return
StartStreamCheck(t) ==
    /\ caller[t].pc = "ss_check"
    /\ IF Has(workers, caller[t].serial)
       THEN /\ caller' = [caller EXCEPT ![t] = Idle]
            /\ lock' = NoThread
       ELSE /\ caller' = [caller EXCEPT ![t].pc = "ss_record"]
            /\ lock' = lock
    /\ UNCHANGED <<workers, frame_queue, w, now, call, session, runner>>

\* a start_stream that keeps one Event per serial: the new worker gets the
\* event of the serial's earlier worker, as it is
StartStreamRecordSharedEvent(t) ==
    /\ caller[t].pc = "ss_record"
    /\ Cardinality(Spawned) < MaxWorkers
    /\ LET id == Cardinality(Spawned) + 1 IN
        /\ w' = [w EXCEPT ![id] =
                    [descriptor |-> caller[t].descriptor,
                     stop_event |-> \E j \in Spawned :
                                        /\ w[j].descriptor = caller[t].descriptor
                                        /\ w[j].stop_event,
                     pc |-> "top", ev |-> <<>>]]
        /\ workers' = SetItem(workers, caller[t].serial, id)
    /\ lock' = NoThread
    /\ caller' = [caller EXCEPT ![t] = Idle]
    /\ UNCHANGED <<frame_queue, now, call, session, runner>>

\* stop_event = Event(); thread = Thread(...); self._workers[serial] = handle;
\* thread.start(); the with block ends
StartStreamRecord(t) ==
    /\ caller[t].pc = "ss_record"
    /\ Cardinality(Spawned) < MaxWorkers
    /\ LET id == Cardinality(Spawned) + 1 IN
        /\ w' = [w EXCEPT ![id] =
                    [descriptor |-> caller[t].descriptor, stop_event |-> FALSE,
                     pc |-> "top", ev |-> <<>>]]
        /\ workers' = SetItem(workers, caller[t].serial, id)
    /\ lock' = NoThread
    /\ caller' = [caller EXCEPT ![t] = Idle]
    /\ UNCHANGED <<frame_queue, now, call, session, runner>>

----------------------------------------------------------------------------
(* ADBService.stop_stream, stop_all, active_serials *)

\* stop_stream(serial) is called
StopStreamCall(t, s) ==
    /\ caller[t].pc = "idle"
    /\ caller' = [caller EXCEPT ![t] = [Idle EXCEPT !.pc = "st_pop", !.serial = s]]
    /\ UNCHANGED <<workers, lock, frame_queue, w, now, call, session, runner>>

\* the caller record after stop_stream returns: back in stop_all's loop, or idle
Returned(c) ==
    IF c.inAll THEN [c EXCEPT !.pc = "sa_loop", !.serial = "", !.handle = None]
    ELSE Idle

\* a pop without the None default: an unknown serial raises KeyError
StopStreamPopKeyError(t) ==
    /\ caller[t].pc = "st_pop"
    /\ CanAcquire(t)
    /\ LET h == Handle(workers, caller[t].serial) IN
        /\ workers' = Pop(workers, caller[t].serial)
        /\ IF h = None
           THEN caller' = [caller EXCEPT ![t].pc = "raised"]
           ELSE caller' = [caller EXCEPT ![t].pc = "st_set", ![t].handle = h]
    /\ lock' = NoThread
    /\ UNCHANGED <<frame_queue, w, now, call, session, runner>>

\* a stop_stream whose with block also encloses set() and join(): the lock is
\* still held when the pop has found a handle
StopStreamPopHoldsLock(t) ==
    /\ caller[t].pc = "st_pop"
    /\ CanAcquire(t)
    /\ LET h == Handle(workers, caller[t].serial) IN
        /\ workers' = Pop(workers, caller[t].serial)
        /\ IF h = None
           THEN caller' = [caller EXCEPT ![t] = Returned(caller[t])] /\ lock' = NoThread
           ELSE caller' = [caller EXCEPT ![t].pc = "st_set", ![t].handle = h] /\ lock' = t
    /\ UNCHANGED <<frame_queue, w, now, call, session, runner>>

\* with self._lock: handle = self._workers.pop(serial, None)
\* if handle is None: return
StopStreamPop(t) ==
    /\ caller[t].pc = "st_pop"
    /\ CanAcquire(t)
    /\ LET h == Handle(workers, caller[t].serial) IN
        /\ workers' = Pop(workers, caller[t].serial)
        /\ IF h = None
           THEN caller' = [caller EXCEPT ![t] = Returned(caller[t])]
           ELSE caller' = [caller EXCEPT ![t].pc = "st_set", ![t].handle = h]
    /\ lock' = NoThread
    /\ UNCHANGED <<frame_queue, w, now, call, session, runner>>

\* a stop that sets the event of every worker
StopStreamSetAll(t) ==
    /\ caller[t].pc = "st_set"
    /\ w' = [i \in WorkerIds |->
                IF w[i].pc = "unborn" THEN w[i]
                ELSE [w[i] EXCEPT !.stop_event = TRUE]]
    /\ caller' = [caller EXCEPT ![t].pc = "st_join"]
    /\ UNCHANGED <<workers, lock, frame_queue, now, call, session, runner>>

\* handle.stop_event.set()
StopStreamSet(t) ==
    /\ caller[t].pc = "st_set"
    /\ w' = [w EXCEPT ![caller[t].handle].stop_event = TRUE]
    /\ caller' = [caller EXCEPT ![t].pc = "st_join"]
    /\ UNCHANGED <<workers, lock, frame_queue, now, call, session, runner>>

\* handle.thread.join(timeout=self.interval * 2) returns: the thread has ended
StopStreamJoin(t) ==
    /\ caller[t].pc = "st_join"
    /\ ~Alive(caller[t].handle)
    /\ caller' = [caller EXCEPT ![t] = Returned(caller[t])]
    /\ UNCHANGED <<workers, lock, frame_queue, w, now, call, session, runner>>

\* a join with no timeout: it returns only when the thread has ended
StopStreamJoinNoTimeout(t) ==
    /\ caller[t].pc = "st_join"
    /\ ~Alive(caller[t].handle)
    /\ caller' = [caller EXCEPT ![t] = Returned(caller[t])]
    /\ UNCHANGED <<workers, lock, frame_queue, w, now, call, session, runner>>

\* handle.thread.join(timeout=self.interval * 2) returns: the timeout expired
\* with the thread still alive
StopStreamJoinTimeout(t) ==
    /\ caller[t].pc = "st_join"
    /\ Alive(caller[t].handle)
    /\ caller' = [caller EXCEPT ![t] = Returned(caller[t])]
    /\ UNCHANGED <<workers, lock, frame_queue, w, now, call, session, runner>>

\* stop_all(): with self._lock: serials = list(self._workers.keys())
StopAllSnapshot(t) ==
    /\ caller[t].pc = "idle"
    /\ CanAcquire(t)
    /\ caller' = [caller EXCEPT ![t] =
                    [Idle EXCEPT !.pc = "sa_loop", !.serials = Keys(workers),
                                 !.i = 1, !.inAll = TRUE,
                                 !.snapN = Cardinality(Spawned)]]
    /\ lock' = NoThread
    /\ UNCHANGED <<workers, frame_queue, w, now, call, session, runner>>

\* for serial in serials: self.stop_stream(serial)
StopAllNext(t) ==
    /\ caller[t].pc = "sa_loop"
    /\ caller[t].i <= Len(caller[t].serials)
    /\ caller' = [caller EXCEPT ![t].pc = "st_pop",
                                ![t].serial = caller[t].serials[caller[t].i],
                                ![t].i = caller[t].i + 1]
    /\ UNCHANGED <<workers, lock, frame_queue, w, now, call, session, runner>>

\* the loop of stop_all is exhausted: stop_all returns
StopAllReturn(t) ==
    /\ caller[t].pc = "sa_loop"
    /\ caller[t].i > Len(caller[t].serials)
    /\ caller' = [caller EXCEPT ![t] = Idle]
    /\ UNCHANGED <<workers, lock, frame_queue, w, now, call, session, runner>>

\* the value active_serials() returns in the current state
ActiveSerials == Keys(workers)

\* active_serials(): with self._lock: return list(self._workers.keys())
ActiveSerialsCall(t) ==
    /\ caller[t].pc = "idle"
    /\ CanAcquire(t)
    /\ caller' = [caller EXCEPT ![t] =
                    [Idle EXCEPT !.pc = "as_ret", !.serials = ActiveSerials]]
    /\ lock' = NoThread
    /\ UNCHANGED <<workers, frame_queue, w, now, call, session, runner>>

\* the caller has used the list active_serials() returned
ActiveSerialsReturn(t) ==
    /\ caller[t].pc = "as_ret"
    /\ caller' = [caller EXCEPT ![t] = Idle]
    /\ UNCHANGED <<workers, lock, frame_queue, w, now, call, session, runner>>

----------------------------------------------------------------------------
(* ADBService._frame_worker *)

\* a loop condition that does not look at the stop event (while True)
LoopTestBlind(i) ==
    [w EXCEPT ![i].pc = "run"]

\* the loop condition `while not stop_event.is_set()`: the worker leaves the
\* loop, or issues self.ssh_session.run(command, timeout=20)
LoopTest(i) ==
    [w EXCEPT ![i].pc = IF w[i].stop_event THEN "exit" ELSE "run"]

\* the thread starts: the first test of the loop condition
WorkerTop(i) ==
    /\ w[i].pc = "top"
    /\ w' = LoopTest(i)
    /\ UNCHANGED <<workers, lock, frame_queue, caller, now, call, session, runner>>

\* datetime.utcnow(): a capture call takes longer than the resolution of the
\* clock, so each reading is later than the one before
UtcNow == now + 1

\* if result.ok and result.stdout: the FrameEvent is constructed, its timestamp
\* read from the clock
Emit(i, result) ==
    /\ FramesMade < MaxFrames
    /\ now' = UtcNow
    /\ w' = [w EXCEPT ![i].pc = "put",
                      ![i].ev = <<FrameEvent(w[i].descriptor,
                                             Replace(result.stdout), UtcNow)>>]
    /\ UNCHANGED <<workers, lock, frame_queue, caller, call, session, runner>>

\* a failure branch that ends the loop
LogFailureAndExit(i, result) ==
    /\ w' = [w EXCEPT ![i].pc = "exit"]
    /\ UNCHANGED <<workers, lock, frame_queue, caller, now, call, session, runner>>

\* else: logger.error("Failed to capture frame for %s: %s", ...)
LogFailure(i, result) ==
    /\ w' = [w EXCEPT ![i].pc = "wait"]
    /\ UNCHANGED <<workers, lock, frame_queue, caller, now, call, session, runner>>

\* a test that looks at the exit code only
CaptureOkOnly(i, result) ==
    IF Ok(result)
    THEN Emit(i, result)
    ELSE LogFailure(i, result)

\* if result.ok and result.stdout: ... else: ...
Capture(i, result) ==
    IF Ok(result) /\ result.stdout # <<>>
    THEN Emit(i, result)
    ELSE LogFailure(i, result)

\* a capture call that is abandoned when the stop event is set
WorkerCaptureCancellable(i) ==
    /\ w[i].pc = "run"
    /\ IF w[i].stop_event
       THEN /\ w' = [w EXCEPT ![i].pc = "exit"]
            /\ UNCHANGED <<workers, lock, frame_queue, caller, now, call, session, runner>>
       ELSE \E result \in RunResults : Capture(i, result)

\* result = self.ssh_session.run(command, timeout=20) returns, and the
\* if/else on it is taken
WorkerCapture(i) ==
    /\ w[i].pc = "run"
    /\ \E result \in RunResults : Capture(i, result)

\* self.ssh_session.run raises (exec_command, read or connect fails): nothing
\* in _frame_worker catches it and the thread's target ends
WorkerRaise(i) ==
    /\ w[i].pc = "run"
    /\ w' = [w EXCEPT ![i].pc = "crashed"]
    /\ UNCHANGED <<workers, lock, frame_queue, caller, now, call, session, runner>>

\* a loop whose wait and test are skipped after a frame has been put
WorkerPutThenRun(i) ==
    /\ w[i].pc = "put"
    /\ frame_queue' = Append(frame_queue, w[i].ev[1])
    /\ w' = [w EXCEPT ![i].pc = "run", ![i].ev = <<>>]
    /\ UNCHANGED <<workers, lock, caller, now, call, session, runner>>

\* self.frame_queue.put(FrameEvent(...))
WorkerPut(i) ==
    /\ w[i].pc = "put"
    /\ frame_queue' = Append(frame_queue, w[i].ev[1])
    /\ w' = [w EXCEPT ![i].pc = "wait", ![i].ev = <<>>]
    /\ UNCHANGED <<workers, lock, caller, now, call, session, runner>>

\* a wait that clears the event when it returns (stop_event.clear())
WorkerWaitClearsEvent(i) ==
    /\ w[i].pc = "wait"
    /\ w' = [w EXCEPT ![i].pc = "run", ![i].stop_event = FALSE]
    /\ UNCHANGED <<workers, lock, frame_queue, caller, now, call, session, runner>>

\* a wait after which the loop body runs again with no test of the event
WorkerWaitThenRun(i) ==
    /\ w[i].pc = "wait"
    /\ w' = [w EXCEPT ![i].pc = "run"]
    /\ UNCHANGED <<workers, lock, frame_queue, caller, now, call, session, runner>>

\* stop_event.wait(self.interval) returns, because the event was set or the
\* interval elapsed, and the loop condition is tested again
WorkerWait(i) ==
    /\ w[i].pc = "wait"
    /\ w' = LoopTest(i)
    /\ UNCHANGED <<workers, lock, frame_queue, caller, now, call, session, runner>>

----------------------------------------------------------------------------

\* one step of caller thread t
CallerStep(t) ==
    \/ \E d \in Descriptors : StartStreamCall(t, d)
    \/ StartStreamAcquire(t)
    \/ StartStreamCheck(t)
    \/ StartStreamRecord(t)
    \/ \E s \in Serials : StopStreamCall(t, s)
    \/ StopStreamPop(t)
    \/ StopStreamSet(t)
    \/ StopStreamJoin(t)
    \/ StopStreamJoinTimeout(t)
    \/ StopAllSnapshot(t)
    \/ StopAllNext(t)
    \/ StopAllReturn(t)
    \/ ActiveSerialsCall(t)
    \/ ActiveSerialsReturn(t)

\* one step of capture worker i
WorkerStep(i) ==
    \/ WorkerTop(i)
    \/ WorkerCapture(i)
    \/ WorkerRaise(i)
    \/ WorkerPut(i)
    \/ WorkerWait(i)

\* the application: every call is made by the GUI thread
Next ==
    \/ CallerStep(Gui)
    \/ \E i \in WorkerIds : WorkerStep(i)

Spec == Init /\ [][Next]_vars

\* several threads call the service concurrently
NextConc ==
    \/ \E t \in Threads : CallerStep(t)
    \/ \E i \in WorkerIds : WorkerStep(i)

SpecConc == Init /\ [][NextConc]_vars

\* several threads call start_stream concurrently
StartStep(t) ==
    \/ \E d \in Descriptors : StartStreamCall(t, d)
    \/ StartStreamAcquire(t)
    \/ StartStreamCheck(t)
    \/ StartStreamRecord(t)

NextStart ==
    \/ \E t \in Threads : StartStep(t)
    \/ \E i \in WorkerIds : WorkerStep(i)

SpecStart == Init /\ [][NextStart]_vars

\* a worker whose capture call does not return: it starts the call, leaves
\* its loop before the first call, or the call raises
BlockedWorkerStep(i) ==
    \/ WorkerTop(i)
    \/ WorkerRaise(i)

\* several threads call the service while the capture calls block
NextWait ==
    \/ \E t \in Threads : CallerStep(t)
    \/ \E i \in WorkerIds : BlockedWorkerStep(i)

SpecWait == Init /\ [][NextWait]_vars

\* the steps of thread t inside stop_stream
StopStreamStep(t) ==
    \/ StopStreamPop(t)
    \/ StopStreamSet(t)
    \/ StopStreamJoin(t)
    \/ StopStreamJoinTimeout(t)

\* the streams a watch starts: one for each emulator, as far as threads go
Started ==
    IF MaxWorkers < Cardinality(Descriptors)
    THEN MaxWorkers ELSE Cardinality(Descriptors)

\* the watch is on: start_stream has returned for each emulator, in some
\* order, and no worker has run yet
InitWatching ==
    /\ \E f \in [1..Started -> Descriptors] :
        /\ \A j, k \in 1..Started : f[j] = f[k] => j = k
        /\ workers = [k \in 1..Started |->
                        [serial |-> f[k].serial, handle |-> k]]
        /\ w = [i \in WorkerIds |->
                  IF i <= Started
                  THEN [descriptor |-> f[i], stop_event |-> FALSE,
                        pc |-> "top", ev |-> <<>>]
                  ELSE Unborn]
    /\ lock = NoThread
    /\ frame_queue = <<>>
    /\ caller = [t \in Threads |-> Idle]
    /\ now = 0
    /\ call = NoCall
    /\ session = Connected
    /\ runner = [t \in SessionThreads |-> Outside]

\* the GUI thread stops streams while the workers run
NextStop ==
    \/ \E s \in Serials : StopStreamCall(Gui, s)
    \/ StopStreamStep(Gui)
    \/ \E i \in WorkerIds : WorkerStep(i)

\* every worker thread is scheduled and every remote call returns or raises
SpecLive ==
    InitWatching /\ [][NextStop]_vars
        /\ \A i \in WorkerIds : WF_vars(WorkerStep(i))

\* the calling thread is scheduled inside stop_stream and the timer of join
\* runs; nothing is assumed of the workers or of the remote calls
SpecGrace ==
    InitWatching /\ [][NextStop]_vars /\ WF_vars(StopStreamStep(Gui))

----------------------------------------------------------------------------
(* Text.  A str is a sequence of units: the words "emulator", "device" and  *)
(* "x" (any other letters), the digits, "-", and the white space " ", "\t"  *)
(* and "\n".  No unit is a prefix of another and "device" occurs in a text  *)
(* only as the unit, so prefixes, substrings and splits on units are those  *)
(* of the characters.                                                       *)

Digits == {"4", "5", "6"}
White == {" ", "\t", "\n"}

DigitValue(u) == CASE u = "4" -> 4 [] u = "5" -> 5 [] u = "6" -> 6

\* the first position of text holding a unit of set, 0 when there is none
FirstIndex(text, set) ==
    IF \E k \in 1..Len(text) : text[k] \in set
    THEN CHOOSE k \in 1..Len(text) :
            text[k] \in set /\ \A l \in 1..(k - 1) : text[l] \notin set
    ELSE 0

\* str.splitlines(): a final "\n" ends the last line, it starts no empty one
RECURSIVE SplitLines(_)
SplitLines(text) ==
    IF text = <<>> THEN <<>>
    ELSE LET k == FirstIndex(text, {"\n"}) IN
         IF k = 0 THEN <<text>>
         ELSE <<SubSeq(text, 1, k - 1)>>
                 \o SplitLines(SubSeq(text, k + 1, Len(text)))

\* str.strip(): leading and trailing white space removed
RECURSIVE Strip(_)
Strip(text) ==
    IF text = <<>> THEN <<>>
    ELSE IF text[1] \in White THEN Strip(Tail(text))
    ELSE IF text[Len(text)] \in White THEN Strip(SubSeq(text, 1, Len(text) - 1))
    ELSE text

\* str.split(): the maximal runs of units that are not white space
RECURSIVE Split(_)
Split(text) ==
    IF text = <<>> THEN <<>>
    ELSE IF text[1] \in White THEN Split(Tail(text))
    ELSE LET k == FirstIndex(text, White) IN
         IF k = 0 THEN <<text>>
         ELSE <<SubSeq(text, 1, k - 1)>> \o Split(SubSeq(text, k, Len(text)))

\* "device" in line
Contains(text, u) == \E k \in 1..Len(text) : text[k] = u

\* str.startswith(prefix)
StartsWith(text, prefix) ==
    Len(text) >= Len(prefix) /\ SubSeq(text, 1, Len(prefix)) = prefix

\* str.split(sep, maxsplit=1)
SplitOnce(text, sep) ==
    LET k == FirstIndex(text, {sep}) IN
    IF k = 0 THEN <<text>>
    ELSE <<SubSeq(text, 1, k - 1), SubSeq(text, k + 1, Len(text))>>

\* str.split(sep) without maxsplit, as far as its last piece goes
RECURSIVE SplitEvery(_, _)
SplitEvery(text, sep) ==
    LET k == FirstIndex(text, {sep}) IN
    IF k = 0 THEN <<text>>
    ELSE <<SubSeq(text, 1, k - 1)>>
            \o SplitEvery(SubSeq(text, k + 1, Len(text)), sep)

\* int(text) does not raise ValueError: an optional sign, then digits
IsInt(text) ==
    LET body == IF text # <<>> /\ text[1] = "-" THEN Tail(text) ELSE text IN
    body # <<>> /\ \A k \in 1..Len(body) : body[k] \in Digits

RECURSIVE Decimal(_)
Decimal(body) ==
    IF body = <<>> THEN 0
    ELSE 10 * Decimal(SubSeq(body, 1, Len(body) - 1)) + DigitValue(body[Len(body)])

\* int(text), for a text int() accepts
IntValue(text) ==
    IF text[1] = "-" THEN 0 - Decimal(Tail(text)) ELSE Decimal(text)

----------------------------------------------------------------------------
(* adb_service.py: _serial_to_port and ADBService.list_emulators *)

\* a derivation that splits on every "-" and parses the last piece
SerialToPortLastDash(serial) ==
    LET pieces == SplitEvery(serial, "-")
        suffix == pieces[Len(pieces)] IN
    IF IsInt(suffix) THEN IntValue(suffix) ELSE -1

\* _serial_to_port(serial)
SerialToPort(serial) ==
    LET pieces == SplitOnce(serial, "-")
        suffix == pieces[Len(pieces)] IN
    IF IsInt(suffix) THEN IntValue(suffix) ELSE -1

Returns(value) == [raised |-> FALSE, value |-> value]
\* serial, status = line.split() with other than two pieces: ValueError
Raises == [raised |-> TRUE, value |-> <<>>]

\* the for loop of list_emulators over lines[k..], descriptors collected so far
RECURSIVE ParseLines(_, _, _)
ParseLines(lines, k, descriptors) ==
    IF k > Len(lines) THEN Returns(descriptors)
    ELSE LET line == Strip(lines[k]) IN
         IF line = <<>> \/ ~Contains(line, "device")
         THEN ParseLines(lines, k + 1, descriptors)
         ELSE LET pieces == Split(line) IN
              IF Len(pieces) # 2 THEN Raises
              ELSE LET serial == pieces[1]
                       status == pieces[2] IN
                   IF ~StartsWith(serial, <<"emulator", "-">>)
                        \/ status # <<"device">>
                   THEN ParseLines(lines, k + 1, descriptors)
                   ELSE ParseLines(lines, k + 1,
                            Append(descriptors,
                                   [serial |-> serial,
                                    port |-> SerialToPort(serial)]))

\* a listing that parses stdout whatever the exit code
ListEmulatorsAnyExit(result) ==
    ParseLines(SplitLines(result.stdout), 2, <<>>)

\* list_emulators(), given the RunResult of "adb devices"
ListEmulators(result) ==
    IF ~Ok(result) THEN Returns(<<>>)
    ELSE ParseLines(SplitLines(result.stdout), 2, <<>>)

\* lines that "adb devices" and the remote shell can print
Serial5554 == <<"emulator", "-", "5", "5", "5", "4">>
Serial5556 == <<"emulator", "-", "5", "5", "5", "6">>
ListingLines ==
    { <<"x", " ", "x", " ", "device", "x", " ", "x">>,  \* List of devices attached
      <<>>,                                             \* blank
      Serial5554 \o <<"\t", "device">>,
      <<" ">> \o Serial5556 \o <<" ", "device", " ">>,
      Serial5556 \o <<"\t", "x">>,                      \* offline, unauthorized
      Serial5554 \o <<"\t", "device", "x">>,            \* a status holding "device"
      <<"x", "-", "x">>,                                \* malformed-line
      <<"x", "5", "\t", "device">>,                     \* a device that is no emulator
      <<"emulator", "-", "x", "\t", "device">>,         \* emulator-abc
      <<"emulator", "-", "-", "5", "\t", "device">>,    \* emulator--5
      <<"emulator", "-", "5", "-", "4", "\t", "device">>,
      Serial5554 \o <<"\t", "device", " ", "x">>,       \* device and a third piece
      <<"device", "x">> }                               \* one piece holding "device"

\* lines of one stdout
MaxLines == 3

\* the lines joined, each ended by "\n"
RECURSIVE JoinLines(_)
JoinLines(lines) ==
    IF lines = <<>> THEN <<>>
    ELSE lines[1] \o <<"\n">> \o JoinLines(Tail(lines))

ListingStdouts ==
    { JoinLines(lines) :
        lines \in UNION { [1..n -> ListingLines] : n \in 0..MaxLines } }

\* "adb devices" has returned: list_emulators is about to look at the result
InitList ==
    /\ workers = <<>>
    /\ lock = NoThread
    /\ frame_queue = <<>>
    /\ w = [i \in WorkerIds |-> Unborn]
    /\ caller = [t \in Threads |-> Idle]
    /\ now = 0
    /\ \E code \in ExitCodes : \E out \in ListingStdouts :
        call = [pc |-> "list_emulators",
                result |-> [exit_code |-> code, stdout |-> out]]
    /\ session = Connected
    /\ runner = [t \in SessionThreads |-> Outside]

\* list_emulators() returns or raises
ListEmulatorsCall ==
    /\ call.pc = "list_emulators"
    /\ call' = [pc |-> "listed", result |-> call.result,
                outcome |-> ListEmulators(call.result)]
    /\ UNCHANGED <<workers, lock, frame_queue, w, caller, now, session, runner>>

NextList == ListEmulatorsCall

SpecList == InitList /\ [][NextList]_vars

----------------------------------------------------------------------------
(* the normalisation of one captured stdout, _frame_worker line 101 *)

\* bytes of a captured stdout: LF, CR and one other byte
Bytes == {10, 13, 80}

\* bytes of one captured stdout
MaxBytes == 7

CapturedStdouts == UNION { [1..n -> Bytes] : n \in 1..MaxBytes }

\* a capture has returned ok with a non-empty stdout
InitBytes ==
    /\ workers = <<>>
    /\ lock = NoThread
    /\ frame_queue = <<>>
    /\ w = [i \in WorkerIds |-> Unborn]
    /\ caller = [t \in Threads |-> Idle]
    /\ now = 0
    /\ \E out \in CapturedStdouts :
        call = [pc |-> "replace", stdout |-> out]
    /\ session = Connected
    /\ runner = [t \in SessionThreads |-> Outside]

\* frame = result.stdout.replace(b"\r\r\n", b"\n")
NormaliseCall ==
    /\ call.pc = "replace"
    /\ call' = [pc |-> "replaced", stdout |-> call.stdout,
                frame |-> Replace(call.stdout)]
    /\ UNCHANGED <<workers, lock, frame_queue, w, caller, now, session, runner>>

NextBytes == NormaliseCall

SpecBytes == InitBytes /\ [][NextBytes]_vars

----------------------------------------------------------------------------
(* SSHSession: run, _ensure_client, connect, close *)

\* paramiko clients made in one behaviour
MaxClients == 2

\* threading.RLock of the session: free, or owned by the acquiring thread
SessionCanAcquire(t) == session.lock \in {NoThread, t}

\* the thread goes back to where connect() was called from
Leave(t) ==
    [runner EXCEPT ![t].pc = runner[t].ret, ![t].ret = "out"]

\* run(command) is called: client = self._ensure_client()
RunCall(t) ==
    /\ runner[t].pc = "out"
    /\ runner' = [runner EXCEPT ![t].pc = "ensure"]
    /\ UNCHANGED <<workers, lock, frame_queue, w, caller, now, call, session>>

\* if self._client is None: self.connect()
EnsureTest(t) ==
    /\ runner[t].pc = "ensure"
    /\ runner' = IF session.client = NoClient
                 THEN [runner EXCEPT ![t].pc = "c_lock", ![t].ret = "assert"]
                 ELSE [runner EXCEPT ![t].pc = "assert"]
    /\ UNCHANGED <<workers, lock, frame_queue, w, caller, now, call, session>>

\* connect() is called by the application
ConnectCall(t) ==
    /\ runner[t].pc = "out"
    /\ runner' = [runner EXCEPT ![t].pc = "c_lock", ![t].ret = "out"]
    /\ UNCHANGED <<workers, lock, frame_queue, w, caller, now, call, session>>

\* connect: with self._lock
ConnectAcquire(t) ==
    /\ runner[t].pc = "c_lock"
    /\ SessionCanAcquire(t)
    /\ session' = [session EXCEPT !.lock = t]
    /\ runner' = [runner EXCEPT ![t].pc = "c_check"]
    /\ UNCHANGED <<workers, lock, frame_queue, w, caller, now, call>>

\* connect: if self._client is not None: return
ConnectCheck(t) ==
    /\ runner[t].pc = "c_check"
    /\ IF session.client # NoClient
       THEN /\ session' = [session EXCEPT !.lock = NoThread]
            /\ runner' = Leave(t)
       ELSE /\ session' = session
            /\ runner' = [runner EXCEPT ![t].pc = "c_make"]
    /\ UNCHANGED <<workers, lock, frame_queue, w, caller, now, call>>

\* connect: client = paramiko.SSHClient(); client.connect(...);
\* self._client = client; the with block ends
ConnectMake(t) ==
    /\ runner[t].pc = "c_make"
    /\ session.made < MaxClients
    /\ session' = [client |-> session.made + 1, lock |-> NoThread,
                   made |-> session.made + 1,
                   open |-> session.open \cup {session.made + 1}]
    /\ runner' = Leave(t)
    /\ UNCHANGED <<workers, lock, frame_queue, w, caller, now, call>>

\* _ensure_client: assert self._client is not None
EnsureAssert(t) ==
    /\ runner[t].pc = "assert"
    /\ runner' = [runner EXCEPT ![t].pc =
                    IF session.client = NoClient THEN "failed" ELSE "return"]
    /\ UNCHANGED <<workers, lock, frame_queue, w, caller, now, call, session>>

\* _ensure_client: return self._client
EnsureReturn(t) ==
    /\ runner[t].pc = "return"
    /\ runner' = [runner EXCEPT ![t].pc = "exec", ![t].client = session.client]
    /\ UNCHANGED <<workers, lock, frame_queue, w, caller, now, call, session>>

\* run: client.exec_command(command, timeout=timeout); it raises when client
\* is None (AttributeError) or has been closed (SSHException)
RunExec(t) ==
    /\ runner[t].pc = "exec"
    /\ runner' = [runner EXCEPT ![t].pc =
                    IF runner[t].client \in session.open THEN "read" ELSE "failed"]
    /\ UNCHANGED <<workers, lock, frame_queue, w, caller, now, call, session>>

\* run: stdout.read(), stderr.read(), recv_exit_status(); return RunResult
RunRead(t) ==
    /\ runner[t].pc = "read"
    /\ runner' = [runner EXCEPT ![t] = Outside]
    /\ UNCHANGED <<workers, lock, frame_queue, w, caller, now, call, session>>

\* close() is called by the application
CloseCall(t) ==
    /\ runner[t].pc = "out"
    /\ runner' = [runner EXCEPT ![t].pc = "x_lock"]
    /\ UNCHANGED <<workers, lock, frame_queue, w, caller, now, call, session>>

\* close: with self._lock
CloseAcquire(t) ==
    /\ runner[t].pc = "x_lock"
    /\ SessionCanAcquire(t)
    /\ session' = [session EXCEPT !.lock = t]
    /\ runner' = [runner EXCEPT ![t].pc = "x_check"]
    /\ UNCHANGED <<workers, lock, frame_queue, w, caller, now, call>>

\* close: if self._client is None: return; self._client.close();
\* self._client = None; the with block ends
CloseDo(t) ==
    /\ runner[t].pc = "x_check"
    /\ session' = [session EXCEPT !.lock = NoThread, !.client = NoClient,
                                  !.open = session.open \ {session.client}]
    /\ runner' = [runner EXCEPT ![t] = Outside]
    /\ UNCHANGED <<workers, lock, frame_queue, w, caller, now, call>>

\* one step of a thread inside run()
RunStep(t) ==
    \/ RunCall(t)
    \/ EnsureTest(t)
    \/ ConnectAcquire(t)
    \/ ConnectCheck(t)
    \/ ConnectMake(t)
    \/ EnsureAssert(t)
    \/ EnsureReturn(t)
    \/ RunExec(t)
    \/ RunRead(t)

\* the session has been constructed and not yet connected
InitSession ==
    /\ workers = <<>>
    /\ lock = NoThread
    /\ frame_queue = <<>>
    /\ w = [i \in WorkerIds |-> Unborn]
    /\ caller = [t \in Threads |-> Idle]
    /\ now = 0
    /\ call = NoCall
    /\ session = Fresh
    /\ runner = [t \in SessionThreads |-> Outside]

\* every thread calls run; the GUI thread also calls connect and close
NextSession ==
    \/ \E t \in SessionThreads : RunStep(t)
    \/ ConnectCall(Gui)
    \/ CloseCall(Gui)
    \/ CloseAcquire(Gui)
    \/ CloseDo(Gui)

SpecSession == InitSession /\ [][NextSession]_vars

----------------------------------------------------------------------------------------------------------------------------------------------------
(* MainWindow._disconnect: the teardown of supervisor and session *)

\* a worker inside self.ssh_session.run finds self._client None in
\* _ensure_client and connects: a new client is made and becomes the session's
WorkerEnsureClient(i) ==
    /\ w[i].pc = "run"
    /\ session.client = NoClient
    /\ session.lock = NoThread
    /\ session.made < MaxClients
    /\ session' = [client |-> session.made + 1, lock |-> NoThread,
                   made |-> session.made + 1,
                   open |-> session.open \cup {session.made + 1}]
    /\ UNCHANGED <<workers, lock, frame_queue, w, caller, now, call, runner>>

\* _disconnect(): self.adb_service.stop_all() is called and takes its snapshot
DisconnectCall(t) ==
    /\ runner[t].pc = "out"
    /\ caller[t].pc = "idle"
    /\ CanAcquire(t)
    /\ caller' = [caller EXCEPT ![t] =
                    [Idle EXCEPT !.pc = "sa_loop", !.serials = Keys(workers),
                                 !.i = 1, !.inAll = TRUE,
                                 !.snapN = Cardinality(Spawned)]]
    /\ lock' = NoThread
    /\ runner' = [runner EXCEPT ![t].pc = "teardown"]
    /\ UNCHANGED <<workers, frame_queue, w, now, call, session>>

\* _disconnect(): stop_all has returned; self.ssh_session.close()
DisconnectClose(t) ==
    /\ runner[t].pc = "teardown"
    /\ caller[t].pc = "idle"
    /\ session.lock = NoThread
    /\ session' = [session EXCEPT !.client = NoClient,
                                  !.open = session.open \ {session.client}]
    /\ runner' = [runner EXCEPT ![t].pc = "torn"]
    /\ UNCHANGED <<workers, lock, frame_queue, w, caller, now, call>>

\* the GUI thread starts and stops streams until it disconnects
NextTeardown ==
    \/ runner[Gui].pc = "out" /\ StartStep(Gui)
    \/ runner[Gui].pc = "out" /\ \E s \in Serials : StopStreamCall(Gui, s)
    \/ StopStreamStep(Gui)
    \/ DisconnectCall(Gui)
    \/ StopAllNext(Gui)
    \/ StopAllReturn(Gui)
    \/ DisconnectClose(Gui)
    \/ \E i \in WorkerIds : WorkerStep(i)
    \/ \E i \in WorkerIds : WorkerEnsureClient(i)

SpecTeardown == Init /\ [][NextTeardown]_vars

----
(* Properties *)

SerialOf(i) == w[i].descriptor.serial

\* the FrameEvents of serial s in queue q, in queue order
FramesOf(q, s) == SelectSeq(q, LAMBDA f : f.emulator.serial = s)

\* thread t is inside a start_stream or stop_stream call for serial s
InCallOn(t, s) ==
    /\ caller[t].serial = s
    /\ caller[t].pc \in {"ss_lock", "ss_check", "ss_record",
                         "st_pop", "st_set", "st_join"}

\* C1: in every reachable state at most one capture worker per serial is
\* active, a worker being active from its spawn until its thread has exited.
C1_OneActiveWorkerPerSerial ==
    \A i \in Spawned : \A j \in Spawned :
        (i # j /\ Alive(i) /\ Alive(j)) => SerialOf(i) # SerialOf(j)

\* C2: a start_stream call that finds a handle for its serial returns at its
\* next step and changes neither the worker map, nor any worker or
\* cancellation signal (no worker is spawned), nor the frame queue.
C2_StartStreamIdempotent ==
    [][\A t \in Threads :
        (/\ caller[t].pc = "ss_check"
         /\ Has(workers, caller[t].serial)
         /\ caller'[t] # caller[t])
        => (/\ caller'[t].pc = "idle"
            /\ workers' = workers
            /\ w' = w
            /\ frame_queue' = frame_queue)]_vars

\* C2 witness: a second start_stream for a serial whose worker is tracked and
\* running is at its existence check.
C2_Witness ==
    \E t \in Threads :
        /\ caller[t].pc = "ss_check"
        /\ Has(workers, caller[t].serial)
        /\ Alive(Handle(workers, caller[t].serial))

\* C3: under concurrent start_stream calls no spawned worker is lost and no
\* serial has two: every worker spawned is the handle recorded for its serial,
\* and the map holds one handle per serial.
C3_ConcurrentStartSpawnsOnce ==
    /\ \A i \in Spawned : Handle(workers, SerialOf(i)) = i
    /\ \A k \in 1..Len(workers) : \A l \in 1..Len(workers) :
            workers[k].serial = workers[l].serial => k = l

\* C3 witness: one thread holds the lock about to record a handle while the
\* other waits for the lock with a call for the same serial, and the worker of
\* the other serial is already tracked.
C3_Witness ==
    \E t \in Threads : \E u \in Threads :
        /\ t # u
        /\ caller[t].pc = "ss_record"
        /\ lock = t
        /\ caller[u].pc = "ss_lock"
        /\ caller[u].serial = caller[t].serial
        /\ Len(workers) = 1

\* serial s was streamed, its stop_stream has returned and no start_stream for
\* it has been called since (stated for the single calling thread of Spec)
Stopped(s) ==
    /\ \E i \in Spawned : SerialOf(i) = s
    /\ ~Has(workers, s)
    /\ \A t \in Threads : ~InCallOn(t, s)

\* C4: after stop_stream(s) has returned, and as long as no later start_stream
\* is called for s, no FrameEvent of s is put on the frame queue.
C4_NoFrameAfterStop ==
    [][\A s \in Serials :
        Stopped(s) => FramesOf(frame_queue', s) = FramesOf(frame_queue, s)]_vars

\* C5: a capture worker's execution ends only after its cancellation signal
\* has been set: no failure of a remote call ends it.
C5_WorkerEndsOnlyCancelled ==
    \A i \in Spawned : ~Alive(i) => w[i].stop_event

\* C6: a capture iteration that fails (non-zero exit code or empty output)
\* leaves its worker in the loop, waiting for the next iteration, and changes
\* no other worker, the worker map or the frame queue; a waiting worker that
\* is not cancelled issues the next capture call; and a successful capture
\* appends one frame of the worker's own descriptor to the queue.
C6_FailureIsolatedAndRetried ==
    [][\A i \in WorkerIds :
        /\ (w[i].pc = "run" /\ w'[i].pc \notin {"run", "put", "crashed"})
            => (/\ w'[i].pc = "wait"
                /\ \A j \in WorkerIds \ {i} : w'[j] = w[j]
                /\ workers' = workers
                /\ frame_queue' = frame_queue)
        /\ (w[i].pc = "wait" /\ w'[i].pc # "wait" /\ ~w[i].stop_event)
            => w'[i].pc = "run"
        /\ (w[i].pc = "put" /\ w'[i].pc # "put")
            => (/\ Len(frame_queue') = Len(frame_queue) + 1
                /\ frame_queue'[Len(frame_queue')].emulator = w[i].descriptor)]_vars

\* C6 witness: the workers of two serials are alive; one waits for its next
\* iteration having emitted no frame (its capture failed), the other has a
\* frame in the queue.
C6_Witness ==
    \E i \in Spawned : \E j \in Spawned :
        /\ SerialOf(i) # SerialOf(j)
        /\ w[i].pc = "wait"
        /\ ~w[i].stop_event
        /\ FramesOf(frame_queue, SerialOf(i)) = <<>>
        /\ Alive(j)
        /\ FramesOf(frame_queue, SerialOf(j)) # <<>>

\* stop_all of thread t has stopped every serial of its snapshot and is about
\* to return
StopAllDone(t) ==
    /\ caller[t].pc = "sa_loop"
    /\ caller[t].i > Len(caller[t].serials)

\* C7: when stop_all returns, no start_stream having run concurrently with it,
\* active_serials() returns an empty list.
C7_StopAllEmptiesActiveSerials ==
    \A t \in Threads : StopAllDone(t) => ActiveSerials = <<>>

\* C7 witness: stop_all is about to return after stopping the streams of two
\* serials.
C7_Witness ==
    \E t \in Threads : StopAllDone(t) /\ Len(caller[t].serials) = 2

\* C8: stop_all is not retroactive: the handles it removes are those recorded
\* before it took its snapshot (worker ids are given in order of recording), so
\* a stream whose handle is recorded after the snapshot stays tracked.
C8_StopAllNotRetroactive ==
    \A t \in Threads :
        (caller[t].inAll /\ caller[t].handle # None)
            => caller[t].handle <= caller[t].snapN

\* C9: stop_stream on a serial without a handle returns at once, without
\* failure, and leaves the worker map, every worker and cancellation signal and
\* the frame queue unchanged.
C9_StopUnknownIsNoOp ==
    [][\A t \in Threads :
        (/\ caller[t].pc = "st_pop"
         /\ ~Has(workers, caller[t].serial)
         /\ caller'[t] # caller[t])
        => (/\ caller'[t].pc \in {"idle", "sa_loop"}
            /\ workers' = workers
            /\ w' = w
            /\ frame_queue' = frame_queue)]_vars

\* C9 witness: stop_stream is called for a serial without a handle while the
\* worker of another serial is tracked and running.
C9_Witness ==
    \E t \in Threads :
        /\ caller[t].pc = "st_pop"
        /\ ~Has(workers, caller[t].serial)
        /\ \E i \in Spawned : Alive(i) /\ Handle(workers, SerialOf(i)) = i

\* C10: the FrameEvents of one serial are in the queue in capture order: their
\* timestamps never decrease along the queue.
C10_TimestampsOrderedPerSerial ==
    \A k \in 1..Len(frame_queue) : \A l \in 1..Len(frame_queue) :
        (k < l /\ frame_queue[k].emulator.serial = frame_queue[l].emulator.serial)
            => frame_queue[k].timestamp <= frame_queue[l].timestamp

\* list_emulators has been given a result and has returned or raised
Listed == call.pc = "listed"

\* C11: list_emulators never raises on the content of a listing: for every
\* stdout returned with exit code zero it returns a list.
C11_ListingNeverRaises ==
    (Listed /\ Ok(call.result)) => ~call.outcome.raised

\* the descriptor a line yields under the listing rule: exactly two pieces, a
\* serial starting with emulator- and the status device
Accepted(line) ==
    /\ Len(Split(line)) = 2
    /\ StartsWith(Split(line)[1], <<"emulator", "-">>)
    /\ Split(line)[2] = <<"device">>

RECURSIVE AcceptedFrom(_, _)
AcceptedFrom(lines, k) ==
    IF k > Len(lines) THEN <<>>
    ELSE IF Accepted(lines[k])
         THEN <<Split(lines[k])[1]>> \o AcceptedFrom(lines, k + 1)
         ELSE AcceptedFrom(lines, k + 1)

SerialsOf(descriptors) ==
    [k \in 1..Len(descriptors) |-> descriptors[k].serial]

\* C12: for every listing the descriptors returned are, in line order, those
\* of the accepted lines after the first line; every other line yields none.
C12_ListingIsTheAcceptedLines ==
    (Listed /\ Ok(call.result))
        => /\ ~call.outcome.raised
           /\ SerialsOf(call.outcome.value)
                = AcceptedFrom(SplitLines(call.result.stdout), 2)

\* C13: with a non-zero exit code list_emulators returns an empty list without
\* raising, whatever stdout holds, and the worker map, the workers and the
\* frame queue are as they were.
C13_FailedListingIsEmpty ==
    (Listed /\ ~Ok(call.result))
        => /\ call.outcome = Returns(<<>>)
           /\ workers = <<>>
           /\ frame_queue = <<>>
           /\ \A i \in WorkerIds : w[i] = Unborn

\* C13 witness: the listing failed with a stdout that holds the header, the
\* line of a running emulator and a line of three pieces.
C13_Witness ==
    /\ Listed
    /\ ~Ok(call.result)
    /\ call.result.stdout =
         JoinLines(<< <<"x", " ", "x", " ", "device", "x", " ", "x">>,
                      Serial5554 \o <<"\t", "device">>,
                      Serial5554 \o <<"\t", "device", " ", "x">> >>)

\* the text after the first "-" of a serial
AfterFirstDash(serial) ==
    SubSeq(serial, FirstIndex(serial, {"-"}) + 1, Len(serial))

\* C14: the port of every descriptor is the integer written after the first
\* "-" of its serial when that text is an integer, and -1 otherwise.
C14_PortIsSuffixOrSentinel ==
    Listed =>
        \A k \in 1..Len(call.outcome.value) :
            LET d == call.outcome.value[k] IN
            d.port = IF IsInt(AfterFirstDash(d.serial))
                     THEN IntValue(AfterFirstDash(d.serial))
                     ELSE -1

\* C14 witness: one listing yields emulator-5554 with port 5554 and emulator-x,
\* whose suffix is no integer, with port -1.
C14_Witness ==
    /\ Listed
    /\ Len(call.outcome.value) = 2
    /\ call.outcome.value[1] = [serial |-> Serial5554, port |-> 5554]
    /\ call.outcome.value[2] = [serial |-> <<"emulator", "-", "x">>, port |-> -1]

\* the positions where CR-CR-LF starts; two of them never share a byte
Occurrences(b) ==
    {i \in 1..(Len(b) - 2) : b[i] = 13 /\ b[i + 1] = 13 /\ b[i + 2] = 10}

\* the positions that survive: all but the two CRs of each occurrence
Surviving(b) ==
    {j \in 1..Len(b) : j \notin Occurrences(b) /\ (j - 1) \notin Occurrences(b)}

\* the k-th surviving position
KthSurviving(b, k) ==
    CHOOSE j \in Surviving(b) :
        Cardinality({x \in Surviving(b) : x <= j}) = k

\* C15: the payload is the captured stdout with every CR-CR-LF replaced by one
\* LF and every other byte kept in order: it is shorter by two bytes per
\* occurrence and holds the surviving bytes in their order.
C15_NormalisedPayload ==
    call.pc = "replaced" =>
        /\ Len(call.frame) = Len(call.stdout) - 2 * Cardinality(Occurrences(call.stdout))
        /\ \A k \in 1..Len(call.frame) :
                call.frame[k] = call.stdout[KthSurviving(call.stdout, k)]

\* C15 witness: a stdout with two occurrences and another byte is normalised.
C15_Witness ==
    /\ call.pc = "replaced"
    /\ call.stdout = <<80, 13, 13, 10, 13, 13, 10>>
    /\ call.frame = <<80, 10, 10>>

\* the capture succeeded with something to show
Successful(result) == Ok(result) /\ result.stdout # <<>>

\* C16: a capture that returns exit code zero and a non-empty stdout makes the
\* worker construct one FrameEvent with its own descriptor and the normalised
\* stdout, and put exactly that one on the queue; any other result constructs
\* and enqueues nothing; the queue grows in no other way, and a worker gets a
\* frame to put only from a successful capture.
C16_OneFramePerSuccessfulCapture ==
    [][\A i \in WorkerIds :
        /\ \A result \in RunResults :
            (w[i].pc = "run" /\ Capture(i, result)) =>
                IF Successful(result)
                THEN /\ w'[i].pc = "put"
                     /\ Len(w'[i].ev) = 1
                     /\ w'[i].ev[1].emulator = w[i].descriptor
                     /\ w'[i].ev[1].frame_bytes = Replace(result.stdout)
                     /\ frame_queue' = frame_queue
                ELSE /\ w'[i].pc = "wait"
                     /\ w'[i].ev = <<>>
                     /\ frame_queue' = frame_queue
        /\ (w[i].pc # "put" /\ w'[i].pc = "put") =>
                /\ w[i].pc = "run"
                /\ \E result \in RunResults :
                      Successful(result) /\ Capture(i, result)
        /\ (w[i].pc = "put" /\ w'[i] # w[i] /\ w'[i].pc # "put") =>
                /\ w'[i].pc = "wait"
                /\ w'[i].ev = <<>>
                /\ frame_queue' = Append(frame_queue, w[i].ev[1])
        /\ frame_queue' # frame_queue =>
                \E j \in WorkerIds : w[j].pc = "put" /\ w'[j].pc = "wait"
      ]_vars

\* C16 witness: a worker that has already enqueued a frame of its emulator
\* holds the frame of its next successful capture.
C16_Witness ==
    \E i \in WorkerIds :
        /\ w[i].pc = "put"
        /\ w[i].ev[1].emulator = w[i].descriptor
        /\ w[i].ev[1].frame_bytes = <<80, 10>>
        /\ Len(frame_queue) = 1
        /\ frame_queue[1].emulator = w[i].descriptor

\* C17: setting the stop event leaves a worker where it is; a capture call in
\* flight with the event set still returns or raises, its result is treated as
\* that of any other call, a frame constructed from it is still enqueued, and
\* the worker does not exit before it reaches the wait.
C17_InFlightCallCompletes ==
    [][\A i \in WorkerIds :
        /\ (~w[i].stop_event /\ w'[i].stop_event) =>
                (w'[i].pc = w[i].pc /\ w'[i].ev = w[i].ev)
        /\ (w[i].stop_event /\ w[i].pc = "run" /\ w'[i] # w[i]) =>
                /\ w'[i].pc \in {"put", "wait", "crashed"}
                /\ \A result \in RunResults :
                      Capture(i, result) =>
                        (w'[i].pc = "put") = Successful(result)
        /\ (w[i].stop_event /\ w[i].pc = "put" /\ w'[i] # w[i]) =>
                /\ w'[i].pc = "wait"
                /\ frame_queue' = Append(frame_queue, w[i].ev[1])
      ]_vars

\* C17 witness: the stop event of a worker is set, its handle is out of the
\* map, and the worker holds a frame made from the call that was in flight.
C17_Witness ==
    \E i \in WorkerIds :
        /\ w[i].stop_event
        /\ w[i].pc = "put"
        /\ \A k \in 1..Len(workers) : workers[k].handle # i

\* C18: a worker at the top of its loop or in its wait whose stop event is set
\* does nothing but exit: it issues no capture call and the queue is as it
\* was; a worker that has exited does nothing more.
C18_CancelledWaitExits ==
    [][\A i \in WorkerIds :
        /\ (w[i].stop_event /\ w[i].pc \in {"top", "wait"} /\ w'[i] # w[i]) =>
                (w'[i].pc = "exit" /\ frame_queue' = frame_queue)
        /\ w[i].pc = "exit" => w'[i] = w[i]
      ]_vars

\* C18 witness: a worker has left its loop on its stop event.
C18_Witness ==
    \E i \in WorkerIds : w[i].pc = "exit" /\ w[i].stop_event

\* C19: a worker whose stop event is set eventually is no longer alive, when
\* every worker is scheduled and every remote call returns or raises.
C19_CancelledWorkerEnds ==
    \A i \in WorkerIds : w[i].stop_event ~> ~Alive(i)

\* C19 witness: the stop event of a worker is set while its capture call is
\* in flight.
C19_Witness ==
    \E i \in WorkerIds : w[i].stop_event /\ w[i].pc = "run"

\* thread t is inside stop_stream
InStopStream(t) == caller[t].pc \in {"st_pop", "st_set", "st_join"}

\* C20: a stop_stream under way eventually returns, whatever its worker does,
\* and while it waits in join the handle is out of the map and the stop event
\* is set.
C20_StopStreamReturns ==
    /\ InStopStream(Gui) ~> ~InStopStream(Gui)
    /\ [](caller[Gui].pc = "st_join" =>
            /\ w[caller[Gui].handle].stop_event
            /\ \A k \in 1..Len(workers) :
                    workers[k].handle # caller[Gui].handle)

\* C20 witness: stop_stream waits in join for a worker whose capture call is
\* in flight.
C20_Witness ==
    /\ caller[Gui].pc = "st_join"
    /\ w[caller[Gui].handle].pc = "run"

\* C21: the lock is held only between the acquisition in start_stream and the
\* end of its with block, so never by a thread that sets an event or waits in
\* join, and never on behalf of a worker; while a thread waits in join, another
\* thread that is about to take the lock in start_stream, stop_stream,
\* stop_all or active_serials can take it, and a start_stream that has it can
\* go on.
C21_LockNotHeldWhileBlocking ==
    \A t \in Threads :
        /\ lock = t => caller[t].pc \in {"ss_check", "ss_record"}
        /\ caller[t].pc \in {"st_set", "st_join"} =>
              \A u \in Threads \ {t} :
                /\ caller[u].pc = "ss_lock" => ENABLED StartStreamAcquire(u)
                /\ caller[u].pc = "ss_check" => ENABLED StartStreamCheck(u)
                /\ caller[u].pc = "st_pop" => ENABLED StopStreamPop(u)
                /\ caller[u].pc = "idle" =>
                      /\ ENABLED ActiveSerialsCall(u)
                      /\ ENABLED StopAllSnapshot(u)

\* C21 witness: one thread waits in join for a worker whose capture call is in
\* flight while the other thread holds the lock inside start_stream.
C21_Witness ==
    \E t \in Threads : \E u \in Threads \ {t} :
        /\ caller[t].pc = "st_join"
        /\ w[caller[t].handle].pc = "run"
        /\ caller[u].pc = "ss_check"
        /\ lock = u

\* C22: the pop of stop_stream(s) takes the entry of s out of the map and
\* leaves every other entry, every worker and the queue as they were; the set
\* sets the event of the popped handle's worker and changes nothing else of
\* any worker, nor the map, nor the queue; the join changes none of them.
C22_StopStreamTouchesOnlyItsWorker ==
    [][\A t \in Threads :
        /\ (caller[t].pc = "st_pop" /\ caller'[t] # caller[t]) =>
              /\ ~Has(workers', caller[t].serial)
              /\ \A x \in Serials \ {caller[t].serial} :
                    Handle(workers', x) = Handle(workers, x)
              /\ Len(workers') =
                    Len(workers) - (IF Has(workers, caller[t].serial) THEN 1 ELSE 0)
              /\ Has(workers, caller[t].serial) =>
                    /\ caller'[t].pc = "st_set"
                    /\ caller'[t].handle = Handle(workers, caller[t].serial)
              /\ w' = w
              /\ frame_queue' = frame_queue
        /\ (caller[t].pc = "st_set" /\ caller'[t] # caller[t]) =>
              /\ w'[caller[t].handle] =
                    [w[caller[t].handle] EXCEPT !.stop_event = TRUE]
              /\ \A i \in WorkerIds \ {caller[t].handle} : w'[i] = w[i]
              /\ workers' = workers
              /\ frame_queue' = frame_queue
        /\ (caller[t].pc = "st_join" /\ caller'[t] # caller[t]) =>
              /\ w' = w
              /\ workers' = workers
              /\ frame_queue' = frame_queue
      ]_vars

\* C22 witness: stop_stream of one serial waits in join while the other serial
\* is tracked, its worker runs with its event not set, and a frame is queued.
C22_Witness ==
    /\ caller[Gui].pc = "st_join"
    /\ Len(workers) = 1
    /\ workers[1].handle # caller[Gui].handle
    /\ Alive(workers[1].handle)
    /\ ~w[workers[1].handle].stop_event
    /\ Len(frame_queue) >= 1

\* the lifecycle state of a worker record: 0 not spawned, 1 running,
\* 2 stopping (event set, thread not ended), 3 stopped (thread ended)
Phase(wi) ==
    IF wi.pc = "unborn" THEN 0
    ELSE IF wi.pc \in {"exit", "crashed"} THEN 3
    ELSE IF wi.stop_event THEN 2
    ELSE 1

\* C23: a worker is running when spawned; its lifecycle state never goes
\* back; its event, once set, stays set; it becomes stopping only by the set
\* of a stop_stream that popped its handle; it is bound to one descriptor for
\* good.
C23_LifecycleMonotonic ==
    [][\A i \in WorkerIds :
        /\ Phase(w'[i]) >= Phase(w[i])
        /\ w[i].stop_event => w'[i].stop_event
        /\ (Phase(w[i]) = 0 /\ Phase(w'[i]) # 0) => Phase(w'[i]) = 1
        /\ (Phase(w[i]) # 2 /\ Phase(w'[i]) = 2) =>
              /\ Phase(w[i]) = 1
              /\ \E t \in Threads :
                    /\ caller[t].pc = "st_set"
                    /\ caller[t].handle = i
                    /\ caller'[t].pc = "st_join"
        /\ Phase(w[i]) # 0 => w'[i].descriptor = w[i].descriptor
      ]_vars

\* C23 witness: one worker has gone from running through stopping to stopped
\* while another is stopping.
C23_Witness ==
    \E i, j \in WorkerIds :
        /\ w[i].pc = "exit"
        /\ w[i].stop_event
        /\ Phase(w[j]) = 2

\* C24: no call of run fails, whatever run, connect and close calls of other
\* threads it is interleaved with.
C24_NoRunFailsByInterleaving ==
    \A t \in SessionThreads : runner[t].pc # "failed"

\* C25: every handle in the worker map is that of a worker whose thread is
\* alive.
C25_HandleHasLiveWorker ==
    \A k \in 1..Len(workers) : Alive(workers[k].handle)

\* how far a worker is through its last iteration
Stage(wi) ==
    CASE wi.pc = "top" -> 0
      [] wi.pc = "run" -> 1
      [] wi.pc = "put" -> 2
      [] wi.pc = "wait" -> 3
      [] OTHER -> 4

\* C26: once its event is set a worker only moves forward through capture
\* call, put and wait to its end, each at most once: it begins no new
\* iteration, so at most one capture call returns and at most one frame is
\* put, and only a step that puts this frame adds to the queue on its behalf.
C26_AtMostOneMoreIteration ==
    [][\A i \in WorkerIds :
        (w[i].stop_event /\ w'[i] # w[i]) =>
            /\ Stage(w'[i]) > Stage(w[i])
            /\ w'[i].pc # "run"
            /\ w'[i].pc = "put" => w[i].pc = "run"
            /\ Len(frame_queue') =
                  Len(frame_queue) + (IF w[i].pc = "put" THEN 1 ELSE 0)
      ]_vars

\* C26 witness: a worker whose event is set has put a frame and is in its
\* wait.
C26_Witness ==
    \E i \in WorkerIds :
        /\ w[i].stop_event
        /\ w[i].pc = "wait"
        /\ frame_queue # <<>>
        /\ frame_queue[Len(frame_queue)].emulator = w[i].descriptor

\* the workers spawned for serial s
WorkersOf(s) == {i \in Spawned : w[i].descriptor.serial = s}

\* C27: the worker start_stream spawns is a new one, with its event not set,
\* bound to the descriptor given, and it becomes the handle of the serial;
\* every earlier worker, its event included, is as it was; the handle of a
\* serial is always the latest worker spawned for it, so that the next
\* stop_stream sets the event of that one.
C27_RestartUsesFreshEvent ==
    /\ [][\A t \in Threads :
            (caller[t].pc = "ss_record" /\ caller'[t] # caller[t]) =>
                LET id == Handle(workers', caller[t].serial) IN
                /\ id \in WorkerIds
                /\ w[id].pc = "unborn"
                /\ w'[id].pc = "top"
                /\ ~w'[id].stop_event
                /\ w'[id].descriptor = caller[t].descriptor
                /\ \A j \in WorkerIds \ {id} : w'[j] = w[j]
         ]_vars
    /\ [](\A k \in 1..Len(workers) :
            /\ workers[k].handle \in WorkersOf(workers[k].serial)
            /\ \A j \in WorkersOf(workers[k].serial) : j <= workers[k].handle)

\* C27 witness: the serial has been stopped and started again: its first
\* worker has its event set, its second worker is the handle, has its event
\* not set and is capturing.
C27_Witness ==
    \E i, j \in WorkerIds :
        /\ i < j
        /\ w[i].descriptor = w[j].descriptor
        /\ w[i].stop_event
        /\ ~w[j].stop_event
        /\ w[j].pc = "run"
        /\ Handle(workers, w[j].descriptor.serial) = j

\* the application has torn the session down: stop_all and close have returned
TornDown == runner[Gui].pc = "torn"

\* C28: once the session has been torn down it stays closed: no worker makes
\* it connect again.
C28_ClosedSessionStaysClosed ==
    TornDown => (session.client = NoClient /\ session.open = {})

====
